---- MODULE Spec2Model ----
(***************************************************************************)
(* AutoUpdater (src/includes/AutoUpdater.cpp): a class that checks the     *)
(* latest GitHub release of a repository, downloads one named asset and    *)
(* replaces the running executable with it, keeping a backup for rollback. *)
(*                                                                         *)
(* Strings the code compares character by character (dates) are sequences *)
(* of character codes; files are sequences of bytes, NoFile when absent.   *)
(***************************************************************************)
EXTENDS Integers, Sequences, FiniteSets, TLC

\* ------------------------------------------------------------------ bounds
\* longest downloaded asset, in bytes
MaxLen == 2
\* number of distinct millisecond timestamps the clock can show
MaxStamp == 2
\* longest "assets" array in a release response
MaxAssets == 1
\* number of processes that may run the program
NProc == 2

Proc == 1..NProc
Stamp == 1..MaxStamp

\* an absent file: a value no content equals (bytes are never negative)
NoFile == <<-1>>
\* tmp_path when create_temp_directory returned ""
NoPath == 0

\* ----------------------------------------------------------------- strings
Min(a, b) == IF a < b THEN a ELSE b

\* decimal digits of n, zero padded to width w, as character codes
RECURSIVE Digits(_, _)
Digits(n, w) == IF w = 0 THEN <<>> ELSE Digits(n \div 10, w - 1) \o <<48 + (n % 10)>>

\* "YYYY-MM-DD", the form of current_release_date
DateString(y, m, d) == Digits(y, 4) \o <<45>> \o Digits(m, 2) \o <<45>> \o Digits(d, 2)

\* "T10:00:00Z", the time part of an ISO 8601 timestamp
TimeSuffix == <<84, 49, 48, 58, 48, 48, 58, 48, 48, 90>>

\* std::string::substr(0, n)
\* (variant: three characters fewer, the year and the month of a date)
substr_month(s, n) == SubSeq(s, 1, Min(n - 3, Len(s)))
substr(s, n) == SubSeq(s, 1, Min(n, Len(s)))

\* std::string::compare: -1, 0 or 1
RECURSIVE compare(_, _)
compare(a, b) ==
    IF a = <<>> \/ b = <<>>
    THEN IF Len(a) < Len(b) THEN -1 ELSE IF Len(a) > Len(b) THEN 1 ELSE 0
    ELSE IF Head(a) < Head(b) THEN -1
    ELSE IF Head(a) > Head(b) THEN 1
    ELSE compare(Tail(a), Tail(b))

\* operator> of std::string, as used on line 298
\* (variant: >= in place of >)
greater_ge(a, b) == compare(a, b) >= 0
greater(a, b) == compare(a, b) > 0

\* ------------------------------------------------------------------- files
\* the sequences over S of length n or less
RECURSIVE SeqsUpTo(_, _)
SeqsUpTo(S, n) ==
    IF n = 0 THEN {<<>>}
    ELSE LET T == SeqsUpTo(S, n - 1)
         IN  T \cup {Append(t, x) : t \in {u \in T : Len(u) = n - 1}, x \in S}

\* fs::file_size of an existing file
file_size(f) == Len(f)

\* what a copy that breaks off can leave at its destination
Prefixes(f) == {SubSeq(f, 1, n) : n \in 0..Len(f)}
ProperPrefixes(f) == {SubSeq(f, 1, n) : n \in 0..(Len(f) - 1)}

\* a staging directory <temp>/autoupdater_<timestamp>: the downloaded asset
\* (<dir>/<asset_name>) and the backup (<dir>/<exe name>.bak)
NoDir == [exists |-> FALSE, staged |-> NoFile, bak |-> NoFile]
EmptyDir == [exists |-> TRUE, staged |-> NoFile, bak |-> NoFile]

\* ------------------------------------------------------- release responses
\* the asset the instance is configured with
asset_name == "app_linux_x86_64"
Urls == {"https://host/a1", "https://host/a2"}

\* one element of the "assets" array: the members it has and their values
Entry(ms, n, u, i) == [members |-> ms, name |-> n, browser_download_url |-> u, id |-> i]
EntryMembers == {"name", "browser_download_url", "id"}
Entries ==
    {Entry(EntryMembers, asset_name, u, 1) : u \in Urls}
    \cup {Entry(EntryMembers, "other.zip", "https://host/a1", 2),
          Entry({"name", "browser_download_url"}, asset_name, "https://host/a1", 0)}
AssetArrays == SeqsUpTo(Entries, MaxAssets)

\* the configured date and the published_at values the server may send
CurrentDates == {DateString(2025, 5, 2), DateString(2025, 6, 8)}
PublishedAts ==
    {DateString(2025, 5, 2) \o TimeSuffix, DateString(2025, 6, 8) \o TimeSuffix,
     DateString(2024, 12, 31) \o TimeSuffix, substr(DateString(2025, 6, 8), 7)}

\* the parsed document: the members of the root object and their values
Doc(ms, msg, pa, isarr, arr) ==
    [members |-> ms, message |-> msg, tag_name |-> "v2", published_at |-> pa,
     assets_is_array |-> isarr, assets |-> arr]
EmptyDoc == Doc({}, "", <<>>, FALSE, <<>>)
Docs ==
    {Doc({"message"}, msg, <<>>, FALSE, <<>>) : msg \in {"Not Found", "Moved"}}
    \cup {Doc({"tag_name", "published_at", "assets"}, "", pa, TRUE, arr) :
             pa \in PublishedAts, arr \in AssetArrays}
    \cup {Doc({"tag_name", "published_at", "assets"}, "", pa, FALSE, <<>>) : pa \in PublishedAts}
    \cup {Doc({"tag_name", "published_at"}, "", pa, FALSE, <<>>) : pa \in PublishedAts}
    \cup {Doc({"tag_name", "assets"}, "", <<>>, TRUE, <<>>)}

\* what one GET of .../releases/latest can give: the CURLcode, whether the
\* body parses as JSON, and the parsed root
Response(res, ok, root) == [res |-> res, parses |-> ok, root |-> root]
Responses ==
    {Response("error", FALSE, EmptyDoc), Response("CURLE_OK", FALSE, EmptyDoc)}
    \cup {Response("CURLE_OK", TRUE, d) : d \in Docs}

isMember(v, k) == k \in v.members

\* std::map operator[] assignment
put(m, k, v) == [x \in (DOMAIN m) \cup {k} |-> IF x = k THEN v ELSE m[x]]
EmptyMap == [x \in {} |-> ""]

\* (variant of assets_loop: an entry is taken without looking for its id)
RECURSIVE assets_loop_no_id(_, _, _)
assets_loop_no_id(arr, assets, asset_ids) ==
    IF arr = <<>> THEN [assets |-> assets, asset_ids |-> asset_ids]
    ELSE LET asset == Head(arr)
         IN  IF isMember(asset, "name") /\ isMember(asset, "browser_download_url")
             THEN assets_loop_no_id(Tail(arr),
                                    put(assets, asset.name, asset.browser_download_url),
                                    put(asset_ids, asset.name, asset.id))
             ELSE assets_loop_no_id(Tail(arr), assets, asset_ids)

\* the loop over the assets array (lines 526-536)
RECURSIVE assets_loop(_, _, _)
assets_loop(arr, assets, asset_ids) ==
    IF arr = <<>> THEN [assets |-> assets, asset_ids |-> asset_ids]
    ELSE LET asset == Head(arr)
         IN  IF isMember(asset, "name") /\ isMember(asset, "browser_download_url")
                /\ isMember(asset, "id")
             THEN assets_loop(Tail(arr), put(assets, asset.name, asset.browser_download_url),
                              put(asset_ids, asset.name, asset.id))
             ELSE assets_loop(Tail(arr), assets, asset_ids)

parse_github_api_response(r) ==
    IF ~r.parses
    THEN [assets |-> EmptyMap, tag_name |-> "", asset_ids |-> EmptyMap]
    ELSE LET root == r.root
             tag == IF isMember(root, "tag_name") THEN root.tag_name ELSE ""
             tables == IF isMember(root, "assets") /\ root.assets_is_array
                       THEN assets_loop(root.assets, EmptyMap, EmptyMap)
                       ELSE [assets |-> EmptyMap, asset_ids |-> EmptyMap]
         IN  [assets |-> tables.assets, tag_name |-> tag, asset_ids |-> tables.asset_ids]

\* (variant of select_asset: no return in the branch of the missing asset)
select_asset_no_return(assets, is_newer, url) ==
    IF asset_name \in DOMAIN assets
    THEN [ret |-> is_newer, release_url |-> assets[asset_name],
          exit |-> IF is_newer THEN "newer" ELSE "not_newer"]
    ELSE [ret |-> is_newer, release_url |-> url, exit |-> "no_asset"]

\* (variant of select_asset: release_url assigned before the lookup is checked,
\* as operator[] of the map would, giving "" for a missing name)
select_asset_assign_first(assets, is_newer, url) ==
    IF asset_name \in DOMAIN assets
    THEN [ret |-> is_newer, release_url |-> assets[asset_name],
          exit |-> IF is_newer THEN "newer" ELSE "not_newer"]
    ELSE [ret |-> FALSE, release_url |-> "", exit |-> "no_asset"]

\* lines 317-338: the lookup of the configured asset and the value returned
select_asset(assets, is_newer, url) ==
    IF asset_name \in DOMAIN assets
    THEN [ret |-> is_newer, release_url |-> assets[asset_name],
          exit |-> IF is_newer THEN "newer" ELSE "not_newer"]
    ELSE [ret |-> FALSE, release_url |-> url, exit |-> "no_asset"]

\* is_update_available() from the curl_easy_perform on: the value returned,
\* the release_url it leaves, and the exit it took.  handle: curl is non-null
is_update_available_result(handle, r, crd, url) ==
    IF ~handle \/ r.res # "CURLE_OK" THEN [ret |-> FALSE, release_url |-> url, exit |-> "curl"]
    ELSE IF ~r.parses THEN [ret |-> FALSE, release_url |-> url, exit |-> "parse"]
    ELSE IF isMember(r.root, "message") /\ r.root.message = "Not Found"
    THEN [ret |-> FALSE, release_url |-> url, exit |-> "not_found"]
    ELSE IF ~isMember(r.root, "published_at")
    THEN [ret |-> FALSE, release_url |-> url, exit |-> "no_published_at"]
    ELSE LET latest_date == substr(r.root.published_at, 10)
             is_newer == greater(latest_date, crd)
             assets == parse_github_api_response(r).assets
         IN  select_asset(assets, is_newer, url)

\* ------------------------------------------------------------------- state
VARIABLES
    platform,               \* "posix" or "win32": which side of #ifdef _WIN32 was built
    current_release_date,   \* constructor argument
    procs,                  \* the processes that run the program
    release_url, curl, initialized,                   \* the instance of each process
    pc, tmp_path, downloaded_file, current_exe, tar_size,  \* update(): position and locals
    exe,                    \* the file at the path of the running executable
    dirs,                   \* the staging directories under the temp directory, by timestamp
    pending,                \* staging directories whose asset MoveFileExA registered
    \* what the last public call on the instance did, for the properties below
    check_ret,              \* value of the most recent is_update_available(): "none" before
    response,               \* what the server answered to that call, where this is kept
    lastCheck,              \* if that call was the last call: its exit, value, published_at
    made,                   \* the staging directory this update() created, NoPath if none
    preExe,                 \* the file at the executable path when update() was entered
    artifact,               \* what download_update stored in this update()
    trace,                  \* the steps this update() took, in order
    foreign,                \* another process changed the executable during this update()
    ret, outcome,           \* value and exit of the update() that has just returned
    postExe,                \* the file at the executable path when it returned
    critical_ret,           \* the values update() has returned after a failed restore
    arg, result             \* a function applied on its own: its input, <<its value>>

config == <<platform, current_release_date, procs>>
inst == <<release_url, curl, initialized>>
locals == <<tmp_path, downloaded_file, current_exe, tar_size>>
fsys == <<exe, dirs, pending>>
run == <<made, preExe, artifact, trace>>
last == <<ret, outcome, postExe, critical_ret>>
call == <<arg, result>>
vars == <<config, inst, pc, locals, fsys, check_ret, response, lastCheck, run, foreign, last, call>>

\* response: no call of is_update_available() yet; the answers are not kept
NoResponse == Response("none", FALSE, EmptyDoc)
NotKept == Response("not kept", FALSE, EmptyDoc)

NoCheck == [exit |-> "none", ret |-> FALSE, published_at |-> <<>>, listed |-> FALSE]

\* the release the server answered with has an asset of the configured name
\* with a name, a download URL and an id
Listed(r) ==
    /\ r.parses /\ "assets" \in r.root.members /\ r.root.assets_is_array
    /\ \E i \in DOMAIN r.root.assets :
         /\ EntryMembers \subseteq r.root.assets[i].members
         /\ r.root.assets[i].name = asset_name

\* the installed executable the program starts from
Installed == {<<0, 1>>}

\* what a transfer can leave in the downloaded file: nothing, or up to MaxLen
\* bytes of the asset
Served == {[i \in 1..n |-> 1] : n \in 0..MaxLen}

\* the instances with no call in progress.  builds: the builds considered;
\* dates: the values of current_release_date; running: the processes started;
\* answers: the initial value of response; url, checked: release_url and the
\* value of the most recent is_update_available()
Start(builds, dates, running, answers, url, checked) ==
    /\ platform \in builds
    /\ current_release_date \in dates
    /\ procs = running
    /\ release_url = [p \in Proc |-> url]
    /\ curl = [p \in Proc |-> TRUE]
    /\ initialized = [p \in Proc |-> TRUE]
    /\ pc = [p \in Proc |-> "idle"]
    /\ tmp_path = [p \in Proc |-> NoPath]
    /\ downloaded_file = [p \in Proc |-> FALSE]
    /\ current_exe = [p \in Proc |-> "unset"]
    /\ tar_size = [p \in Proc |-> 0]
    /\ exe \in Installed
    /\ dirs = [t \in Stamp |-> NoDir]
    /\ pending = {}
    /\ lastCheck = [p \in Proc |-> NoCheck]
    /\ made = [p \in Proc |-> NoPath]
    /\ preExe = [p \in Proc |-> NoFile]
    /\ artifact = [p \in Proc |-> NoFile]
    /\ trace = [p \in Proc |-> <<>>]
    /\ foreign = [p \in Proc |-> FALSE]
    /\ postExe = [p \in Proc |-> NoFile]
    /\ ret = [p \in Proc |-> "none"]
    /\ outcome = [p \in Proc |-> "none"]
    /\ check_ret = [p \in Proc |-> checked]
    /\ response = [p \in Proc |-> answers]
    /\ critical_ret = {}

\* after the constructor (lines 57-75): initCurl() succeeded, release_url is
\* empty
Constructed(builds, dates, running, answers) ==
    Start(builds, dates, running, answers, "", "none")

\* no function is applied on its own
Uncalled == arg = <<>> /\ result = <<>>

\* one process, either build
Init == Constructed({"posix", "win32"}, CurrentDates, {1}, NotKept) /\ Uncalled

\* initCurl (lines 438-448) with curl_easy_init giving a handle (ok) or NULL
initCurl(ok) == [curl |-> ok, initialized_set |-> ok, ret |-> ok]

\* the guard `!initialized && !initCurl()`: the handle and flag after it, and
\* whether the caller goes on
guard(isinit, handle, ok) ==
    IF isinit THEN [curl |-> handle, initialized |-> TRUE, pass |-> TRUE]
    ELSE [curl |-> initCurl(ok).curl, initialized |-> initCurl(ok).initialized_set,
          pass |-> initCurl(ok).ret]

\* ---------------------------------------------------- is_update_available
is_update_available(p) ==
    /\ p \in procs /\ pc[p] = "idle"
    /\ \E r \in Responses, ok \in (IF initialized[p] THEN {TRUE} ELSE BOOLEAN) :
         LET g == guard(initialized[p], curl[p], ok)
         IN
         \E res \in {IF g.pass
                     THEN is_update_available_result(g.curl, r, current_release_date,
                                                     release_url[p])
                     ELSE [ret |-> FALSE, release_url |-> release_url[p], exit |-> "init"]} :
             /\ curl' = [curl EXCEPT ![p] = g.curl]
             /\ initialized' = [initialized EXCEPT ![p] = g.initialized]
             /\ release_url' = [release_url EXCEPT ![p] = res.release_url]
             /\ lastCheck' = [lastCheck EXCEPT ![p] =
                    [exit |-> res.exit, ret |-> res.ret,
                     published_at |-> IF res.exit \in {"newer", "not_newer", "no_asset"}
                                      THEN r.root.published_at ELSE <<>>,
                     listed |-> Listed(r)]]
             /\ check_ret' = [check_ret EXCEPT ![p] = IF res.ret THEN "true" ELSE "false"]
             /\ response' = [response EXCEPT ![p] = IF @ = NotKept THEN @ ELSE r]
    /\ made' = [made EXCEPT ![p] = NoPath]
    /\ preExe' = [preExe EXCEPT ![p] = NoFile]
    /\ artifact' = [artifact EXCEPT ![p] = NoFile]
    /\ trace' = [trace EXCEPT ![p] = <<>>]
    /\ foreign' = [foreign EXCEPT ![p] = FALSE]
    /\ ret' = [ret EXCEPT ![p] = "none"]
    /\ outcome' = [outcome EXCEPT ![p] = "none"]
    /\ postExe' = [postExe EXCEPT ![p] = NoFile]
    /\ UNCHANGED <<config, call, pc, locals, fsys, critical_ret>>

\* ------------------------------------------------------------ file system
\* fs::copy_file / fs::copy of a regular file.  from, to: the files at the two
\* paths; overwrite: copy_options::overwrite_existing; ok: the copy runs to its
\* end; cut: what is at the destination when it does not.  Returns whether it
\* threw and the file at the destination afterwards.
copy_file(from, to, overwrite, ok, cut) ==
    IF from = NoFile THEN [threw |-> TRUE, to |-> to]
    ELSE IF to # NoFile /\ ~overwrite THEN [threw |-> TRUE, to |-> to]
    ELSE IF ok THEN [threw |-> FALSE, to |-> from]
    ELSE [threw |-> TRUE, to |-> cut]

\* what a copy of `from` that throws can leave at a destination holding `to`
Cuts(from, to) == IF from = NoFile THEN {to} ELSE {to} \cup ProperPrefixes(from)

\* fs::remove_all(tmp_path)
\* (variant: the directory is left in place)
remove_all_skipped(ds, t) == ds
remove_all(ds, t) == [ds EXCEPT ![t] = NoDir]

\* -------------------------------------------------------------- update()
\* `return r;` from update(): the locals go away, r and the exit are recorded
Return(p, r, how) ==
    /\ pc' = [pc EXCEPT ![p] = "idle"]
    /\ tmp_path' = [tmp_path EXCEPT ![p] = NoPath]
    /\ downloaded_file' = [downloaded_file EXCEPT ![p] = FALSE]
    /\ current_exe' = [current_exe EXCEPT ![p] = "unset"]
    /\ tar_size' = [tar_size EXCEPT ![p] = 0]
    /\ ret' = [ret EXCEPT ![p] = r]
    /\ outcome' = [outcome EXCEPT ![p] = how]
    /\ postExe' = [postExe EXCEPT ![p] = exe]
    /\ critical_ret' = IF how = "critical" THEN critical_ret \cup {r} ELSE critical_ret

\* a step of p on the executable path: the other processes that are inside
\* update() and find the file changed
Wrote(p) ==
    foreign' = [q \in Proc |-> IF q # p /\ pc[q] # "idle" /\ exe' # exe
                               THEN TRUE ELSE foreign[q]]

Goto(p, where) == pc' = [pc EXCEPT ![p] = where]
Step(p, what) == trace' = [trace EXCEPT ![p] = Append(@, what)]

\* (variant of update_entry: no check of release_url)
update_entry_unguarded(p) ==
    /\ p \in procs /\ pc[p] = "idle"
    /\ made' = [made EXCEPT ![p] = NoPath]
    /\ preExe' = [preExe EXCEPT ![p] = exe]
    /\ artifact' = [artifact EXCEPT ![p] = NoFile]
    /\ trace' = [trace EXCEPT ![p] = <<>>]
    /\ lastCheck' = [lastCheck EXCEPT ![p] = NoCheck]
    /\ foreign' = [foreign EXCEPT ![p] = FALSE]
    /\ Goto(p, "create_temp")
    /\ ret' = [ret EXCEPT ![p] = "none"]
    /\ outcome' = [outcome EXCEPT ![p] = "none"]
    /\ postExe' = [postExe EXCEPT ![p] = NoFile]
    /\ UNCHANGED <<locals, critical_ret>>
    /\ UNCHANGED <<config, call, inst, fsys, check_ret, response>>

\* lines 96-102
update_entry(p) ==
    /\ p \in procs /\ pc[p] = "idle"
    /\ made' = [made EXCEPT ![p] = NoPath]
    /\ preExe' = [preExe EXCEPT ![p] = exe]
    /\ artifact' = [artifact EXCEPT ![p] = NoFile]
    /\ trace' = [trace EXCEPT ![p] = <<>>]
    /\ lastCheck' = [lastCheck EXCEPT ![p] = NoCheck]
    /\ foreign' = [foreign EXCEPT ![p] = FALSE]
    /\ IF release_url[p] = ""
       THEN Return(p, "false", "no_url")
       ELSE /\ Goto(p, "create_temp")
            /\ ret' = [ret EXCEPT ![p] = "none"]
            /\ outcome' = [outcome EXCEPT ![p] = "none"]
            /\ postExe' = [postExe EXCEPT ![p] = NoFile]
            /\ UNCHANGED <<locals, critical_ret>>
    /\ UNCHANGED <<config, call, inst, fsys, check_ret, response>>

\* (variant of create_temp_directory: a directory that exists is taken as made,
\* as fs::create_directories or an unchecked result would)
create_temp_directory_reuses(ds, now, ok) ==
    IF ok
    THEN [dirs |-> [ds EXCEPT ![now] = IF @.exists THEN @ ELSE EmptyDir], path |-> now]
    ELSE [dirs |-> ds, path |-> NoPath]

\* create_temp_directory (lines 460-487): now is the timestamp read, ok is
\* false when temp_directory_path or create_directory reports an error.
\* fs::create_directory returns false for a directory that exists.
create_temp_directory(ds, now, ok) ==
    IF ok /\ ~ds[now].exists
    THEN [dirs |-> [ds EXCEPT ![now] = EmptyDir], path |-> now]
    ELSE [dirs |-> ds, path |-> NoPath]

\* lines 104-110
update_create_temp_directory(p) ==
    /\ p \in procs /\ pc[p] = "create_temp"
    /\ \E now \in Stamp, ok \in BOOLEAN :
         LET c == create_temp_directory(dirs, now, ok)
         IN  /\ dirs' = c.dirs
             /\ made' = [made EXCEPT ![p] = c.path]
             /\ IF c.path = NoPath
                THEN Return(p, "false", "staging") /\ UNCHANGED trace
                ELSE /\ tmp_path' = [tmp_path EXCEPT ![p] = c.path]
                     /\ Goto(p, "download") /\ Step(p, "mkdir")
                     /\ UNCHANGED <<downloaded_file, current_exe, tar_size, last>>
    /\ UNCHANGED <<config, call, foreign, inst, exe, pending, check_ret, response, lastCheck, preExe, artifact>>

\* (variant of download_update: a failed transfer leaves what it wrote)
download_update_leaves(handle, url, fopen_ok, res, written, stat_ok) ==
    IF url = "" THEN [file |-> NoFile, path |-> FALSE]
    ELSE IF ~fopen_ok THEN [file |-> NoFile, path |-> FALSE]
    ELSE IF ~handle \/ res # "CURLE_OK" THEN [file |-> written, path |-> FALSE]
    ELSE IF ~stat_ok \/ file_size(written) = 0 THEN [file |-> NoFile, path |-> FALSE]
    ELSE [file |-> written, path |-> TRUE]

\* download_update (lines 543-617) after the guard.  handle: curl is non-null;
\* url: download_url; fopen_ok: fopen gave a stream; res: the CURLcode; written:
\* what the transfer left in the file; stat_ok: file_size set no error.
\* Returns the file at <dir>/<asset_name> and whether the path returned is
\* non-empty.
download_update(handle, url, fopen_ok, res, written, stat_ok) ==
    IF url = "" THEN [file |-> NoFile, path |-> FALSE]
    ELSE IF ~fopen_ok THEN [file |-> NoFile, path |-> FALSE]
    ELSE IF ~handle \/ res # "CURLE_OK" THEN [file |-> NoFile, path |-> FALSE]
    ELSE IF ~stat_ok \/ file_size(written) = 0 THEN [file |-> NoFile, path |-> FALSE]
    ELSE [file |-> written, path |-> TRUE]

\* line 113
update_download_update(p) ==
    /\ p \in procs /\ pc[p] = "download"
    /\ \E fopen_ok \in BOOLEAN, res \in {"CURLE_OK", "error"}, written \in Served,
          stat_ok \in BOOLEAN, ok \in (IF initialized[p] THEN {TRUE} ELSE BOOLEAN) :
         LET g == guard(initialized[p], curl[p], ok)
             d == IF g.pass
                  THEN download_update(g.curl, release_url[p], fopen_ok, res, written, stat_ok)
                  ELSE [file |-> NoFile, path |-> FALSE]
         IN  /\ curl' = [curl EXCEPT ![p] = g.curl]
             /\ initialized' = [initialized EXCEPT ![p] = g.initialized]
             /\ dirs' = [dirs EXCEPT ![tmp_path[p]].staged = d.file]
             /\ downloaded_file' = [downloaded_file EXCEPT ![p] = d.path]
             /\ artifact' = [artifact EXCEPT ![p] = d.file]
    /\ Goto(p, "downloaded") /\ Step(p, "download")
    /\ UNCHANGED <<config, call, foreign, release_url, tmp_path, current_exe, tar_size, exe, pending,
                   check_ret, response, lastCheck, made, preExe, last>>

\* lines 114-119
update_downloaded(p) ==
    /\ p \in procs /\ pc[p] = "downloaded"
    /\ IF ~downloaded_file[p]
       THEN /\ dirs' = remove_all(dirs, tmp_path[p])
            /\ Return(p, "false", "download")
       ELSE /\ Goto(p, "resolve")
            /\ UNCHANGED <<dirs, locals, last>>
    /\ UNCHANGED <<config, call, foreign, inst, exe, pending, check_ret, response, lastCheck, run>>

\* lines 121-138: fs::canonical("/proc/self/exe") gives the path (found) or
\* throws; the win32 build then takes what GetModuleFileNameA left in the
\* buffer, which is the path (filled) or names no file
update_resolve(p) ==
    /\ p \in procs /\ pc[p] = "resolve"
    /\ \E found \in (IF platform = "posix" THEN BOOLEAN ELSE {FALSE}), filled \in BOOLEAN :
         IF found
         THEN /\ current_exe' = [current_exe EXCEPT ![p] = "exe"]
              /\ Goto(p, "backup")
              /\ UNCHANGED <<dirs, tmp_path, downloaded_file, tar_size, last>>
         ELSE IF platform = "win32"
         THEN /\ current_exe' = [current_exe EXCEPT ![p] = IF filled THEN "exe" ELSE "other"]
              /\ Goto(p, "backup")
              /\ UNCHANGED <<dirs, tmp_path, downloaded_file, tar_size, last>>
         ELSE /\ dirs' = remove_all(dirs, tmp_path[p])
              /\ Return(p, "false", "resolve")
    /\ UNCHANGED <<config, call, foreign, inst, exe, pending, check_ret, response, lastCheck, run>>

\* the file current_exe names
at_current_exe(p) == IF current_exe[p] = "exe" THEN exe ELSE NoFile

\* (variant of update_backup: the handler of a failed backup does not return)
update_backup_goes_on(p) ==
    /\ p \in procs /\ pc[p] = "backup"
    /\ \E ok \in BOOLEAN :
       \E cut \in Cuts(at_current_exe(p), dirs[tmp_path[p]].bak) :
         LET c == copy_file(at_current_exe(p), dirs[tmp_path[p]].bak, TRUE, ok, cut)
         IN  /\ dirs' = [dirs EXCEPT ![tmp_path[p]].bak = c.to]
             /\ Goto(p, IF platform = "win32" THEN "move" ELSE "prepare")
             /\ Step(p, "backup")
             /\ UNCHANGED <<locals, last>>
    /\ UNCHANGED <<config, call, foreign, inst, exe, pending, check_ret, response, lastCheck, made, preExe, artifact>>

\* lines 140-152
update_backup(p) ==
    /\ p \in procs /\ pc[p] = "backup"
    /\ \E ok \in BOOLEAN :
       \E cut \in Cuts(at_current_exe(p), dirs[tmp_path[p]].bak) :
         LET c == copy_file(at_current_exe(p), dirs[tmp_path[p]].bak, TRUE, ok, cut)
         IN  IF c.threw
             THEN /\ dirs' = remove_all([dirs EXCEPT ![tmp_path[p]].bak = c.to], tmp_path[p])
                  /\ Return(p, "false", "backup")
                  /\ UNCHANGED trace
             ELSE /\ dirs' = [dirs EXCEPT ![tmp_path[p]].bak = c.to]
                  /\ Goto(p, IF platform = "win32" THEN "move" ELSE "prepare")
                  /\ Step(p, "backup")
                  /\ UNCHANGED <<locals, last>>
    /\ UNCHANGED <<config, call, foreign, inst, exe, pending, check_ret, response, lastCheck, made, preExe, artifact>>

\* lines 163-183 (posix): the curl handle is closed and set to null, the two
\* sizes are read and the permissions of the downloaded file are set; ok is
\* false when one of the three calls throws for another reason than a missing
\* file
update_prepare(p) ==
    /\ p \in procs /\ pc[p] = "prepare"
    /\ curl' = [curl EXCEPT ![p] = FALSE]
    /\ \E ok \in BOOLEAN :
         IF ok /\ at_current_exe(p) # NoFile /\ dirs[tmp_path[p]].staged # NoFile
         THEN /\ tar_size' = [tar_size EXCEPT ![p] = file_size(dirs[tmp_path[p]].staged)]
              /\ Goto(p, "remove") /\ Step(p, "sizes")
         ELSE /\ Goto(p, "catch") /\ Step(p, "threw")
              /\ UNCHANGED tar_size
    /\ UNCHANGED <<config, call, foreign, release_url, initialized, tmp_path, downloaded_file, current_exe,
                   fsys, check_ret, response, lastCheck, made, preExe, artifact, last>>

\* fs::remove(p): the file afterwards and whether it threw; removing a file
\* that does not exist is no error
remove(f, ok) ==
    IF f = NoFile THEN [threw |-> FALSE, file |-> NoFile]
    ELSE IF ok THEN [threw |-> FALSE, file |-> NoFile]
    ELSE [threw |-> TRUE, file |-> f]

\* lines 185-186
update_remove(p) ==
    /\ p \in procs /\ pc[p] = "remove"
    /\ \E ok \in BOOLEAN :
         LET r == remove(exe, ok)
         IN  /\ exe' = r.file
             /\ IF r.threw
                THEN Goto(p, "catch") /\ Step(p, "threw")
                ELSE Goto(p, "copy") /\ Step(p, "removed")
    /\ Wrote(p)
    /\ UNCHANGED <<config, call, inst, locals, dirs, pending, check_ret, response,
                   lastCheck, made, preExe, artifact, last>>

\* (variant of update_copy: the backup is copied, not the downloaded file)
update_copy_wrong_source(p) ==
    /\ p \in procs /\ pc[p] = "copy"
    /\ \E ok \in BOOLEAN :
       \E cut \in Cuts(dirs[tmp_path[p]].bak, exe),
          landed \in Prefixes(dirs[tmp_path[p]].bak) :
         LET c == copy_file(dirs[tmp_path[p]].bak, exe, FALSE, ok, cut)
         IN  IF c.threw
             THEN exe' = c.to /\ Goto(p, "catch") /\ Step(p, "threw")
             ELSE exe' = landed /\ Goto(p, "verify") /\ Step(p, "copied")
    /\ Wrote(p)
    /\ UNCHANGED <<config, call, inst, locals, dirs, pending, check_ret, response,
                   lastCheck, made, preExe, artifact, last>>

\* lines 188-189.  landed: what is at the executable path when fs::copy has
\* returned without an error, the staged file or less of it; the verification
\* that follows is written for the second case
update_copy(p) ==
    /\ p \in procs /\ pc[p] = "copy"
    /\ \E ok \in BOOLEAN :
       \E cut \in Cuts(dirs[tmp_path[p]].staged, exe),
          landed \in Prefixes(dirs[tmp_path[p]].staged) :
         LET c == copy_file(dirs[tmp_path[p]].staged, exe, FALSE, ok, cut)
         IN  IF c.threw
             THEN exe' = c.to /\ Goto(p, "catch") /\ Step(p, "threw")
             ELSE exe' = landed /\ Goto(p, "verify") /\ Step(p, "copied")
    /\ Wrote(p)
    /\ UNCHANGED <<config, call, inst, locals, dirs, pending, check_ret, response,
                   lastCheck, made, preExe, artifact, last>>

\* lines 191-200: where update() goes after reading new_size
\* (variant: the sizes are not compared)
verify_unchecked(new_size, tar) == "cleanup"
verify(new_size, tar) == IF new_size = tar THEN "cleanup" ELSE "mismatch"

update_verify(p) ==
    /\ p \in procs /\ pc[p] = "verify"
    /\ \E ok \in BOOLEAN :
         IF ok /\ exe # NoFile
         THEN /\ Goto(p, verify(file_size(exe), tar_size[p]))
              /\ Step(p, IF verify(file_size(exe), tar_size[p]) = "cleanup"
                         THEN "verified" ELSE "mismatch")
         ELSE Goto(p, "catch") /\ Step(p, "threw")
    /\ UNCHANGED <<config, call, foreign, inst, locals, fsys, check_ret, response, lastCheck, made, preExe, artifact, last>>

\* line 201: the restore in the size-mismatch branch; when it does not throw,
\* update() leaves the try block
update_mismatch(p) ==
    /\ p \in procs /\ pc[p] = "mismatch"
    /\ \E ok \in BOOLEAN :
       \E cut \in Cuts(dirs[tmp_path[p]].bak, exe) :
         LET c == copy_file(dirs[tmp_path[p]].bak, exe, TRUE, ok, cut)
         IN  /\ exe' = c.to
             /\ IF c.threw
                THEN Goto(p, "catch") /\ Step(p, "restore_failed")
                ELSE Goto(p, "cleanup") /\ Step(p, "restored")
    /\ Wrote(p)
    /\ UNCHANGED <<config, call, inst, locals, dirs, pending, check_ret, response,
                   lastCheck, made, preExe, artifact, last>>

\* (variant of update_catch: the downloaded file is copied, not the backup)
update_catch_wrong_source(p) ==
    /\ p \in procs /\ pc[p] = "catch"
    /\ \E ok \in BOOLEAN :
       \E cut \in Cuts(dirs[tmp_path[p]].staged, exe) :
         LET c == copy_file(dirs[tmp_path[p]].staged, exe, TRUE, ok, cut)
         IN  /\ exe' = c.to
             /\ Step(p, IF c.threw THEN "restore_failed" ELSE "restored")
    /\ Goto(p, "failed")
    /\ Wrote(p)
    /\ UNCHANGED <<config, call, inst, locals, dirs, pending, check_ret, response,
                   lastCheck, made, preExe, artifact, last>>

\* lines 205-218: the handler of the try block
update_catch(p) ==
    /\ p \in procs /\ pc[p] = "catch"
    /\ \E ok \in BOOLEAN :
       \E cut \in Cuts(dirs[tmp_path[p]].bak, exe) :
         LET c == copy_file(dirs[tmp_path[p]].bak, exe, TRUE, ok, cut)
         IN  /\ exe' = c.to
             /\ Step(p, IF c.threw THEN "restore_failed" ELSE "restored")
    /\ Goto(p, "failed")
    /\ Wrote(p)
    /\ UNCHANGED <<config, call, inst, locals, dirs, pending, check_ret, response,
                   lastCheck, made, preExe, artifact, last>>

Last(s) == s[Len(s)]

\* lines 220-221
update_failed(p) ==
    /\ p \in procs /\ pc[p] = "failed"
    /\ dirs' = remove_all(dirs, tmp_path[p])
    /\ Return(p, "false", IF Last(trace[p]) = "restored" THEN "rolled_back" ELSE "critical")
    /\ UNCHANGED <<config, call, foreign, inst, exe, pending, check_ret, response, lastCheck, run>>

\* lines 157-161 (win32): MoveFileExA registers the move for the next reboot
\* (ok) or fails; its result is not looked at
update_move(p) ==
    /\ p \in procs /\ pc[p] = "move"
    /\ \E ok \in BOOLEAN :
         /\ pending' = IF ok THEN pending \cup {tmp_path[p]} ELSE pending
         /\ Step(p, IF ok THEN "registered" ELSE "not_registered")
    /\ Goto(p, "cleanup")
    /\ UNCHANGED <<config, call, foreign, inst, locals, exe, dirs, check_ret, response, lastCheck, made, preExe, artifact, last>>

\* (variant of update_cleanup: the staging directory is removed in both builds)
update_cleanup_removes(p) ==
    /\ p \in procs /\ pc[p] = "cleanup"
    /\ dirs' = remove_all(dirs, tmp_path[p])
    /\ Return(p, "true", IF platform = "win32" THEN "scheduled"
                         ELSE IF Last(trace[p]) = "restored" THEN "restored" ELSE "replaced")
    /\ UNCHANGED <<config, call, foreign, inst, exe, pending, check_ret, response, lastCheck, run>>

\* lines 224-229
update_cleanup(p) ==
    /\ p \in procs /\ pc[p] = "cleanup"
    /\ dirs' = IF platform = "win32" THEN dirs ELSE remove_all(dirs, tmp_path[p])
    /\ Return(p, "true", IF platform = "win32" THEN "scheduled"
                         ELSE IF Last(trace[p]) = "restored" THEN "restored" ELSE "replaced")
    /\ UNCHANGED <<config, call, foreign, inst, exe, pending, check_ret, response, lastCheck, run>>

\* ---------------------------------------------------------- specification
Next ==
    \E p \in Proc :
        \/ is_update_available(p)
        \/ update_entry(p)
        \/ update_create_temp_directory(p)
        \/ update_download_update(p)
        \/ update_downloaded(p)
        \/ update_resolve(p)
        \/ update_backup(p)
        \/ update_prepare(p)
        \/ update_remove(p)
        \/ update_copy(p)
        \/ update_verify(p)
        \/ update_mismatch(p)
        \/ update_catch(p)
        \/ update_failed(p)
        \/ update_move(p)
        \/ update_cleanup(p)

Spec == Init /\ [][Next]_vars

\* one process whose calls of is_update_available() keep the server's answer
InitRepeat == Constructed({"posix", "win32"}, CurrentDates, {1}, NoResponse) /\ Uncalled
SpecRepeat == InitRepeat /\ [][Next]_vars

\* ------------------------------------------ two processes, direct strategy
\* two processes of the posix build started from the same executable, each
\* after an is_update_available() that returned true for the same release
InitDirect ==
    /\ Start({"posix"}, {DateString(2025, 5, 2)}, Proc, NotKept, "https://host/a1", "true")
    /\ Uncalled

\* the steps of update() in the posix build, taken by either process in any order
NextDirect ==
    \E p \in Proc :
        \/ update_entry(p)
        \/ update_create_temp_directory(p)
        \/ update_download_update(p)
        \/ update_downloaded(p)
        \/ update_resolve(p)
        \/ update_backup(p)
        \/ update_prepare(p)
        \/ update_remove(p)
        \/ update_copy(p)
        \/ update_verify(p)
        \/ update_mismatch(p)
        \/ update_catch(p)
        \/ update_failed(p)
        \/ update_cleanup(p)

SpecDirect == InitDirect /\ [][NextDirect]_vars

\* ---------------------------------------- parse_github_api_response alone
\* longest "assets" array parse_github_api_response is applied to on its own
MaxListed == 4

\* the elements of those arrays: three assets of different names, a fourth
\* with the name of the first, and three that lack one member each
ListedEntries ==
    {Entry(EntryMembers, asset_name, "https://host/a1", 1),
     Entry(EntryMembers, "other.zip", "https://host/a2", 2),
     Entry(EntryMembers, "notes.txt", "https://host/a3", 3),
     Entry(EntryMembers, asset_name, "https://host/a4", 4),
     Entry({"name", "browser_download_url"}, asset_name, "https://host/a5", 0),
     Entry({"name", "id"}, "other.zip", "", 6),
     Entry({"browser_download_url", "id"}, "", "https://host/a7", 7)}
ListedArrays == SeqsUpTo(ListedEntries, MaxListed)

\* the response of a release whose "assets" member is arr
Listing(arr) ==
    Response("CURLE_OK", TRUE,
             Doc({"tag_name", "published_at", "assets"}, "",
                 DateString(2025, 6, 8) \o TimeSuffix, TRUE, arr))

InitAssets ==
    /\ Constructed({"posix"}, {DateString(2025, 5, 2)}, {1}, NotKept)
    /\ arg \in ListedArrays /\ result = <<>>

\* line 300: the call, on the response whose "assets" member is arg
call_parse_github_api_response ==
    /\ result = <<>>
    /\ result' = <<parse_github_api_response(Listing(arg))>>
    /\ UNCHANGED <<config, inst, pc, locals, fsys, check_ret, response, lastCheck, run,
                   foreign, last, arg>>

NextAssets == call_parse_github_api_response
SpecAssets == InitAssets /\ [][NextAssets]_vars

\* ------------------------------------------------- the date comparison alone
\* the calendar dates compared: <<year, month, day>>
Years == {999, 1000, 2024, 2025}
Months == 1..12
DaysIn(y, m) ==
    IF m = 2 THEN (IF y % 4 = 0 /\ (y % 100 # 0 \/ y % 400 = 0) THEN 29 ELSE 28)
    ELSE IF m \in {4, 6, 9, 11} THEN 30 ELSE 31
Dates == {<<y, m, d>> : y \in Years, m \in Months, d \in {1, 9, 10, 28, 29, 30, 31}}
ValidDates == {t \in Dates : t[3] <= DaysIn(t[1], t[2])}

\* arg[1] is the day of published_at, arg[2] the day of current_release_date
InitDates ==
    /\ arg \in ValidDates \X ValidDates /\ result = <<>>
    /\ Constructed({"posix"}, {DateString(arg[2][1], arg[2][2], arg[2][3])}, {1}, NotKept)

\* lines 293-298: is_newer
call_is_newer ==
    /\ result = <<>>
    /\ LET latest_full_date == DateString(arg[1][1], arg[1][2], arg[1][3]) \o TimeSuffix
           latest_date == substr(latest_full_date, 10)
       IN  result' = <<greater(latest_date, current_release_date)>>
    /\ UNCHANGED <<config, inst, pc, locals, fsys, check_ret, response, lastCheck, run,
                   foreign, last, arg>>

NextDates == call_is_newer
SpecDates == InitDates /\ [][NextDates]_vars

\* ------------------------------------------------------------- properties
Range(s) == {s[i] : i \in DOMAIN s}

\* update() of p has returned and no other call was made since
Returned(p) == p \in procs /\ pc[p] = "idle" /\ ret[p] # "none"

\* a < b in the order of std::string: b continues a, or the first character
\* in which they differ is smaller in a
StringLess(a, b) ==
    \/ Len(a) < Len(b) /\ SubSeq(b, 1, Len(a)) = a
    \/ \E i \in 1..Min(Len(a), Len(b)) :
         a[i] < b[i] /\ \A j \in 1..(i - 1) : a[j] = b[j]

\* C1: while update() runs, up to its final cleanup, whenever the executable
\* path no longer holds the pre-update content, the staging directory holds a
\* backup file with the pre-update content.
C1_BackupBeforeDestruction ==
    \A p \in procs :
        (pc[p] # "idle" /\ exe # preExe[p]) =>
            /\ tmp_path[p] # NoPath
            /\ dirs[tmp_path[p]].exists
            /\ dirs[tmp_path[p]].bak = preExe[p]

C1_Witness ==
    \E p \in procs :
        /\ pc[p] = "copy" /\ exe = NoFile /\ preExe[p] # NoFile
        /\ dirs[tmp_path[p]].bak = preExe[p]

\* C2: under the direct strategy, when update() returns after a rollback whose
\* restoring copy succeeded, the file at the executable path is the pre-update
\* executable.
C2_RollbackRestores ==
    \A p \in procs :
        (platform = "posix" /\ Returned(p) /\ trace[p] # <<>>
         /\ Last(trace[p]) = "restored") => exe = preExe[p]

C2_Witness ==
    \E p \in procs :
        /\ platform = "posix" /\ Returned(p) /\ trace[p] # <<>>
        /\ Last(trace[p]) = "restored" /\ "removed" \in Range(trace[p])
        /\ "restore_failed" \in Range(trace[p])
        /\ exe = preExe[p]

\* C3: under the direct strategy update() returns true only if the size read
\* after the copy equals the staged artifact's size; after a size mismatch it
\* returns false.
C3_MismatchIsFailure ==
    \A p \in procs :
        (platform = "posix" /\ Returned(p) /\ "mismatch" \in Range(trace[p]))
            => ret[p] = "false"

\* C4: when the replace step failed and the restore failed too, the backup
\* file is still present when update() returns.
C4_BackupKeptAfterCriticalFailure ==
    \A p \in procs :
        (Returned(p) /\ outcome[p] = "critical") =>
            /\ made[p] # NoPath
            /\ dirs[made[p]].exists
            /\ dirs[made[p]].bak = preExe[p]

\* C5: the value update() returns after a failed restore differs from the
\* value it returns for every other failure.
OtherFailures == {"no_url", "staging", "download", "resolve", "backup", "rolled_back"}
C5_CriticalFailureDistinct ==
    \A p \in procs :
        (Returned(p) /\ outcome[p] \in OtherFailures) => ret[p] \notin critical_ret

\* C6: an update() that failed before the replace step (staging directory,
\* download, executable path, backup) returns with the executable path
\* unchanged and with the staging directory it created, and so the staged
\* artifact and the backup, removed.
C6_EarlyFailureLeavesNothing ==
    \A p \in procs :
        (Returned(p) /\ outcome[p] \in {"staging", "download", "resolve", "backup"}) =>
            /\ ret[p] = "false"
            /\ exe = preExe[p]
            /\ made[p] # NoPath => dirs[made[p]] = NoDir

C6_Witness ==
    \E p \in procs :
        /\ Returned(p) /\ outcome[p] = "backup" /\ made[p] # NoPath
        /\ artifact[p] # NoFile /\ dirs[made[p]] = NoDir /\ exe = preExe[p]

\* C7: update() entered with an empty release_url returns false at once and
\* changes neither the file system nor the instance.
C7_NoUrlNoAction ==
    [][\A p \in procs :
         (update_entry(p) /\ release_url[p] = "") =>
            /\ ret'[p] = "false" /\ pc'[p] = "idle"
            /\ made'[p] = NoPath /\ trace'[p] = <<>>
            /\ fsys' = fsys /\ inst' = inst]_vars

C7_Witness ==
    \E p \in procs :
        /\ Returned(p) /\ outcome[p] = "no_url" /\ ret[p] = "false"
        /\ release_url[p] = "" /\ check_ret[p] = "false"

\* C8: a check whose response parses, is no "Not Found" payload, has
\* published_at and lists the configured asset returns true exactly when the
\* first 10 characters of published_at are greater, as strings, than
\* current_release_date; equal dates give false.
C8_NewerIffStrictlyGreater ==
    \A p \in procs :
        lastCheck[p].exit \in {"newer", "not_newer"} =>
            /\ lastCheck[p].ret <=>
                   StringLess(current_release_date, substr(lastCheck[p].published_at, 10))
            /\ substr(lastCheck[p].published_at, 10) = current_release_date
                   => ~lastCheck[p].ret

C8_Witness ==
    \E p \in procs :
        /\ lastCheck[p].exit = "not_newer" /\ lastCheck[p].listed
        /\ substr(lastCheck[p].published_at, 10) = current_release_date
        /\ ~lastCheck[p].ret

\* C9: a check against a release that does not list the configured asset
\* returns false, newer or not, and leaves release_url as it was.
C9_AssetAbsentFails ==
    [][\A p \in procs :
         (pc[p] = "idle" /\ lastCheck'[p].exit # "none" /\ ~lastCheck'[p].listed) =>
            /\ ~lastCheck'[p].ret
            /\ check_ret'[p] = "false"
            /\ release_url'[p] = release_url[p]]_vars

C9_Witness ==
    \E p \in procs :
        /\ lastCheck[p].exit = "no_asset" /\ ~lastCheck[p].listed
        /\ StringLess(current_release_date, substr(lastCheck[p].published_at, 10))
        /\ ~lastCheck[p].ret /\ release_url[p] # ""

\* C10: a check that fails (transport error, malformed JSON, "Not Found",
\* no published_at, asset not found) leaves release_url as it was.
FailedCheck == {"curl", "parse", "not_found", "no_published_at", "no_asset"}
C10_FailedCheckKeepsUrl ==
    [][\A p \in procs :
         (pc[p] = "idle" /\ lastCheck'[p].exit \in FailedCheck) =>
            release_url'[p] = release_url[p]]_vars

C10_Witness ==
    \E p \in procs :
        /\ lastCheck[p].exit = "parse" /\ release_url[p] # "" /\ check_ret[p] = "false"

\* C11: a call of is_update_available() that gets the answer the previous
\* call got returns the value the previous call returned and leaves
\* release_url as it was, whether or not update() ran in between.
C11_RepeatedCheckSame ==
    [][\A p \in procs :
         (pc[p] = "idle" /\ lastCheck'[p].exit # "none"
          /\ response[p] # NoResponse /\ response'[p] = response[p]) =>
            /\ check_ret'[p] = check_ret[p]
            /\ release_url'[p] = release_url[p]]_vars

\* C12: under the direct strategy, an update() whose replacement passed the
\* size verification returns true with the staged artifact at the executable
\* path and with the staging directory, staged artifact and backup included,
\* removed.
C12_DirectSuccess ==
    \A p \in procs :
        (platform = "posix" /\ Returned(p) /\ outcome[p] = "replaced") =>
            /\ ret[p] = "true"
            /\ artifact[p] # NoFile /\ exe = artifact[p]
            /\ made[p] # NoPath /\ dirs[made[p]] = NoDir

C12_Witness ==
    \E p \in procs :
        /\ platform = "posix" /\ Returned(p) /\ outcome[p] = "replaced"
        /\ ret[p] = "true" /\ exe = artifact[p] /\ exe # preExe[p]
        /\ file_size(exe) = MaxLen /\ dirs[made[p]] = NoDir

\* C13: under the deferred strategy update() never changes the file at the
\* executable path, reads no size and verifies none, and when it returns true
\* the staging directory is in place with the staged artifact and the backup.
C13_DeferredLeavesStaging ==
    \A p \in procs :
        /\ (platform = "win32" /\ (pc[p] # "idle" \/ Returned(p))) =>
              /\ exe = preExe[p]
              /\ Range(trace[p]) \cap {"sizes", "removed", "copied", "verified", "mismatch"} = {}
        /\ (platform = "win32" /\ Returned(p) /\ ret[p] = "true") =>
              /\ made[p] # NoPath /\ dirs[made[p]].exists
              /\ dirs[made[p]].staged = artifact[p] /\ artifact[p] # NoFile
              /\ dirs[made[p]].bak = preExe[p] /\ preExe[p] # NoFile

C13_Witness ==
    \E p \in procs :
        /\ platform = "win32" /\ Returned(p) /\ ret[p] = "true"
        /\ outcome[p] = "scheduled" /\ made[p] \in pending
        /\ dirs[made[p]].staged = artifact[p] /\ artifact[p] # NoFile
        /\ dirs[made[p]].bak = preExe[p] /\ exe = preExe[p]

\* C14: when download_update() has returned, a non-empty path names a file of
\* non-zero size, and after an empty path (transfer failed, file empty or
\* missing) there is no file at the destination path.
C14_DownloadAllOrNothing ==
    \A p \in procs :
        pc[p] = "downloaded" =>
            /\ downloaded_file[p] =>
                  /\ dirs[tmp_path[p]].staged # NoFile
                  /\ file_size(dirs[tmp_path[p]].staged) > 0
            /\ ~downloaded_file[p] => dirs[tmp_path[p]].staged = NoFile

C14_Witness ==
    \E p \in procs :
        /\ pc[p] = "downloaded" /\ ~downloaded_file[p]
        /\ dirs[tmp_path[p]].exists /\ dirs[tmp_path[p]].staged = NoFile

\* C15: the asset table parse_github_api_response returns has one entry for
\* each name carried by an element of the assets array that has name,
\* browser_download_url and id, with the URL and id of the last such element
\* of that name; elements lacking one of the three are skipped; when the
\* names of the complete elements differ, the table has as many entries as
\* there are complete elements (3 complete and 1 without id give 3).
WellFormed(e) == EntryMembers \subseteq e.members
C15_AssetTableExact ==
    result # <<>> =>
        LET table == result[1]
            good == {i \in DOMAIN arg : WellFormed(arg[i])}
            last_of(k) == CHOOSE i \in good :
                              /\ arg[i].name = k
                              /\ \A j \in good : arg[j].name = k => j <= i
        IN  /\ DOMAIN table.assets = {arg[i].name : i \in good}
            /\ DOMAIN table.asset_ids = DOMAIN table.assets
            /\ \A k \in DOMAIN table.assets :
                  /\ table.assets[k] = arg[last_of(k)].browser_download_url
                  /\ table.asset_ids[k] = arg[last_of(k)].id
            /\ (\A i, j \in good : arg[i].name = arg[j].name => i = j)
                  => Cardinality(DOMAIN table.assets) = Cardinality(good)

C15_Witness ==
    /\ result # <<>> /\ Len(arg) = 4
    /\ Cardinality({i \in DOMAIN arg : WellFormed(arg[i])}) = 3
    /\ Cardinality({arg[i].name : i \in {j \in DOMAIN arg : WellFormed(arg[j])}}) = 3
    /\ \E i \in DOMAIN arg : arg[i].members = {"name", "browser_download_url"}
    /\ Cardinality(DOMAIN result[1].assets) = 3

\* C16: for two valid dates written as zero-padded YYYY-MM-DD, the string
\* comparison of lines 293-298 is true exactly when the first date is the
\* later day of the calendar.
Later(a, b) ==
    \/ a[1] > b[1]
    \/ a[1] = b[1] /\ a[2] > b[2]
    \/ a[1] = b[1] /\ a[2] = b[2] /\ a[3] > b[3]
C16_StringOrderIsDateOrder ==
    result # <<>> => (result[1] <=> Later(arg[1], arg[2]))

C16_Witness ==
    /\ result = <<TRUE>>
    /\ arg[1][1] = arg[2][1] /\ arg[1][2] = 10 /\ arg[2][2] = 9 /\ arg[1][3] < arg[2][3]

\* C17: under the direct strategy a run of update() that made its backup ends
\* in exactly one of Replaced (size verified), RolledBack (backup restored)
\* and CriticalFailure (restore failed); none of the three is entered before
\* the backup is complete, and once one is entered the run takes no further
\* step on the executable path: a failed restore is followed by no other.
Terminal == {"verified", "restored", "restore_failed"}
C17_OutcomesTerminal ==
    \A p \in procs :
        platform = "posix" =>
            /\ \A i \in DOMAIN trace[p] :
                  trace[p][i] \in Terminal =>
                      /\ i = Len(trace[p])
                      /\ \E j \in 1..(i - 1) : trace[p][j] = "backup"
            /\ (Returned(p) /\ "backup" \in Range(trace[p])) => Last(trace[p]) \in Terminal

\* C20: update() downloads, and removes or writes the file at the executable
\* path, only when the most recent is_update_available() returned true.
C20_UpdateOnlyAfterTrueCheck ==
    \A p \in procs :
        check_ret[p] # "true" =>
            /\ Range(trace[p]) \cap {"download", "removed", "copied", "restored",
                                     "restore_failed", "registered"} = {}
            /\ (pc[p] # "idle" \/ Returned(p)) => exe = preExe[p]

\* C18: two update() runs in progress never hold the same staging directory:
\* create_temp_directory gives a directory that did not exist, or no path.
C18_StagingNotShared ==
    \A p \in procs : \A q \in procs \ {p} :
        tmp_path[p] # NoPath => tmp_path[q] # tmp_path[p]

C18_Witness ==
    \E p \in procs : \E q \in procs \ {p} :
        /\ tmp_path[p] # NoPath /\ dirs[tmp_path[p]].staged # NoFile
        /\ tmp_path[q] # NoPath /\ dirs[tmp_path[q]].staged # NoFile
        /\ \A t \in Stamp : dirs[t].exists

\* C19: two processes that run update() on the same executable path are not
\* kept apart: a run can return true from a verified replacement while the
\* file at the path is not its staged artifact, and that happens only when
\* the other process changed the file during the run.
C19_SuccessWithForeignFile ==
    \A p \in procs :
        (Returned(p) /\ outcome[p] = "replaced" /\ postExe[p] # artifact[p]) => foreign[p]

C19_Witness ==
    \E p \in procs :
        /\ Returned(p) /\ ret[p] = "true" /\ outcome[p] = "replaced"
        /\ artifact[p] # NoFile /\ postExe[p] # artifact[p] /\ foreign[p]

\* C21: under the deferred strategy update() returns true only if MoveFileExA
\* registered the staged artifact for replacement at the next restart; when
\* the registration failed it returns false.
C21_DeferredSuccessIsRegistered ==
    \A p \in procs :
        (platform = "win32" /\ Returned(p) /\ ret[p] = "true") =>
            /\ "registered" \in Range(trace[p])
            /\ made[p] \in pending

\* C22: between public calls the flag initialized is true exactly when the
\* curl handle is non-null.
C22_InitializedIffHandle ==
    \A p \in procs :
        pc[p] = "idle" => (initialized[p] <=> curl[p])

====
